---- MODULE Spec2Model ----
(***************************************************************************)
(* Model of vebio.OptimizationFunctions.Optimization and of the stage      *)
(* models of vebio.RunFunctions it drives (Feedstock, Pretreatment,        *)
(* EnzymaticHydrolysis, Bioreactor).                                       *)
(*                                                                         *)
(* Numbers.  Python floats are modelled as binary floating-point numbers   *)
(* with round-to-nearest-even and a mantissa of Prec bits (53 in CPython;  *)
(* reduced here so that the values stay inside TLC's integers).  A finite  *)
(* number is a reduced fraction <<n, d>> with d > 0; NaN is <<0, 0>>.      *)
(* Overflow to infinity is outside the modelled range.                     *)
(***************************************************************************)
EXTENDS Integers, Sequences, FiniteSets, TLC

\* ------------------------------------------------------------------ bounds
\* mantissa width of the modelled floats
Prec == 6
\* calls of run_models_with_new_values explored in one behaviour
MaxCalls == 2
\* largest number of grid points per dimension a sweep is asked for
MaxGrid == 3
\* grid points visited in one behaviour of the sweeps followed to their end
MaxSweepCalls == 9

\* ----------------------------------------------------------------- numbers
NaN == <<0, 0>>

IsNaN(q) == q[2] = 0

Abs(n) == IF n < 0 THEN -n ELSE n

RECURSIVE GCD(_, _)
GCD(a, b) == IF b = 0 THEN a ELSE GCD(b, a % b)

Pow2(k) == 2 ^ k

\* the reduced fraction n/d (d # 0)
Q(n, d) ==
    LET g == GCD(Abs(n), Abs(d))
        s == IF d < 0 THEN -1 ELSE 1
    IN  <<(s * n) \div g, (s * d) \div g>>

Int2Q(n) == <<n, 1>>

\* comparisons as Python's: every comparison with NaN is false
Lt(a, b) == ~IsNaN(a) /\ ~IsNaN(b) /\ a[1] * b[2] < b[1] * a[2]
Le(a, b) == ~IsNaN(a) /\ ~IsNaN(b) /\ a[1] * b[2] <= b[1] * a[2]
IsZero(a) == ~IsNaN(a) /\ a[1] = 0

\* a/d rounded to the nearest integer, ties to even
RoundHalfEven(a, d) ==
    IF 2 * (a % d) > d \/ (2 * (a % d) = d /\ (a \div d) % 2 = 1)
    THEN (a \div d) + 1
    ELSE a \div d

\* least e >= 0 with a < d * 2^(Prec + e)
RECURSIVE ExpDown(_, _, _)
ExpDown(a, d, e) == IF a < d * Pow2(Prec + e) THEN e ELSE ExpDown(a, d, e + 1)

\* least k >= 0 with a * 2^k >= d * 2^(Prec-1)
RECURSIVE ExpUp(_, _, _)
ExpUp(a, d, k) == IF a * Pow2(k) >= d * Pow2(Prec - 1) THEN k ELSE ExpUp(a, d, k + 1)

\* m/p in lowest terms, p a power of two
RECURSIVE Dyadic(_, _)
Dyadic(m, p) == IF p > 1 /\ m % 2 = 0 THEN Dyadic(m \div 2, p \div 2) ELSE <<m, p>>

\* a/d (a, d > 0) rounded to Prec significant bits, times the sign s:
\* by 2^e upwards when a/d has more than Prec integer bits, by 2^-k otherwise
RoundUpward(s, a, d, e) == <<s * RoundHalfEven(a, d * Pow2(e)) * Pow2(e), 1>>
RoundDownward(s, a, d, k) == Dyadic(s * RoundHalfEven(a * Pow2(k), d), Pow2(k))

\* the float nearest to n/d (d > 0)
RoundFrac(n, d) ==
    IF n = 0 THEN <<0, 1>>
    ELSE IF Abs(n) >= d * Pow2(Prec)
         THEN RoundUpward(IF n < 0 THEN -1 ELSE 1, Abs(n), d, ExpDown(Abs(n), d, 0))
         ELSE RoundDownward(IF n < 0 THEN -1 ELSE 1, Abs(n), d, ExpUp(Abs(n), d, 0))

\* the float nearest to the finite number q
Round(q) == RoundFrac(q[1], q[2])

\* Python float operators; FDiv is used where the divisor is not zero
FNeg(a) == IF IsNaN(a) THEN NaN ELSE <<-a[1], a[2]>>
FAdd(a, b) ==
    IF IsNaN(a) \/ IsNaN(b) THEN NaN
    ELSE RoundFrac(a[1] * b[2] + b[1] * a[2], a[2] * b[2])
FSub(a, b) ==
    IF IsNaN(a) \/ IsNaN(b) THEN NaN
    ELSE RoundFrac(a[1] * b[2] - b[1] * a[2], a[2] * b[2])
FMul(a, b) ==
    IF IsNaN(a) \/ IsNaN(b) THEN NaN ELSE RoundFrac(a[1] * b[1], a[2] * b[2])
FDiv(a, b) ==
    IF IsNaN(a) \/ IsNaN(b) THEN NaN
    ELSE IF b[1] < 0 THEN RoundFrac(-(a[1] * b[2]), -(a[2] * b[1]))
    ELSE RoundFrac(a[1] * b[2], a[2] * b[1])


\* --------------------------------------------------------------- constants
\* Optimization.output_names
output_names == <<"pretreatment_output", "enzymatic_output", "bioreactor_output">>

\* the working directories the stages move between
notebookDir == "notebookDir"
PT_dir == "pretreatment_model/test/"
EH_dir == "EH_OpenFOAM/EH_surrogate/"
BR_dir == "bioreactor/bubble_column/surrogate_model"

\* the results files of scipy_minimize and parameter_grid_sweep (the defaults)
opt_results_default == "optimization_results.csv"
sweep_results_default == "sweep_params.cvs"

\* the sections of the shared configuration document
Sections == {"feedstock", "pretreatment_input", "pretreatment_output",
             "enzymatic_input", "enzymatic_output", "bioreactor_input",
             "bioreactor_output"}

Dirs == {notebookDir, PT_dir, EH_dir, BR_dir}
FileNames == {opt_results_default, sweep_results_default}

\* The field of every output section that the model tracks: the objective
\* field.  For enzymatic_output it also stands for rho_g, which the stage
\* fills with NaN together with the section's other fields.
tracked_key == "rho_f"

\* position of x in the sequence s, 0 when absent
RECURSIVE IndexFrom(_, _, _)
IndexFrom(s, x, i) ==
    IF i > Len(s) THEN 0 ELSE IF s[i] = x THEN i ELSE IndexFrom(s, x, i + 1)

Index(s, x) == IndexFrom(s, x, 1)

\* ------------------------------------------------------------------ stages
\* The process-wide state the stages share: their own fields, the shared
\* configuration document (virteng_params_optimization.yaml in notebookDir;
\* a section is <<>> when absent, <<block>> when present) and the working
\* directory.
\*   w = [FS, PT, EH, BR, yaml, cwd]

\* hasattr(model, var_name), for the names of the widget collections
HasAttr(stage, name) ==
    CASE stage = "FS_model" ->
           name \in {"xylan_solid_fraction", "glucan_solid_fraction", "initial_porosity"}
      [] stage = "PT_model" ->
           name \in {"initial_acid_conc", "steam_temperature", "initial_solid_fraction",
                     "final_time", "bulk_steam_conc", "show_plots"}
      [] stage = "EH_model" ->
           name \in {"lambda_e", "fis_0", "t_final", "model_type", "show_plots"}
      [] stage = "BR_model" ->
           name \in {"gas_velocity", "column_height", "column_diameter",
                     "bubble_diameter", "t_final", "model_type"}
      [] OTHER -> FALSE

\* the section of the document a stage's input2yaml writes
InputSection(stage) ==
    CASE stage = "FS_model" -> "feedstock"
      [] stage = "PT_model" -> "pretreatment_input"
      [] stage = "EH_model" -> "enzymatic_input"
      [] stage = "BR_model" -> "bioreactor_input"

StageField(stage) ==
    CASE stage = "FS_model" -> "FS"
      [] stage = "PT_model" -> "PT"
      [] stage = "EH_model" -> "EH"
      [] stage = "BR_model" -> "BR"

StageParams(w, stage) ==
    CASE stage = "FS_model" -> w.FS
      [] stage = "PT_model" -> w.PT
      [] stage = "EH_model" -> w.EH
      [] stage = "BR_model" -> w.BR

\* a rewrite that writes the stage's own section without the document read
input2yaml_rewrite_NoMerge(w, stage) ==
    IF w.cwd # notebookDir
    THEN [w |-> w, err |-> "FileNotFoundError"]
    ELSE [w |-> [w EXCEPT !.yaml = [s \in Sections |->
                                       IF s = InputSection(stage)
                                       THEN <<StageParams(w, stage)>> ELSE <<>>]],
          err |-> "none"]

\* input2yaml(rewrite=True): read the document (relative to the working
\* directory), replace the stage's own section, write it back
input2yaml_rewrite(w, stage) ==
    IF w.cwd # notebookDir
    THEN [w |-> w, err |-> "FileNotFoundError"]
    ELSE [w |-> [w EXCEPT !.yaml[InputSection(stage)] = <<StageParams(w, stage)>>],
          err |-> "none"]

\* the interval checks of the property setters
InClosed(a, lo, hi) == Le(lo, a) /\ Le(a, hi)
InOpen(a, lo, hi) == Lt(lo, a) /\ Lt(a, hi)

\* the literal 273.15 of the Celsius/Kelvin conversion, as a float
Kelvin == Round(Q(27315, 100))

\* one property setter: the range check, then the private field
\* (the value the setter stores, after its unit conversion).  A record
\* field named after a property holds the private field behind it.  The
\* upper limit 1e16 of Bioreactor.t_final is beyond the modelled values; a
\* float is never one of the strings model_type accepts.
SetterAccepts(stage, name, a) ==
    CASE stage = "FS_model" /\ name \in {"xylan_solid_fraction", "glucan_solid_fraction"} ->
           InClosed(a, Int2Q(0), Int2Q(1))
      [] stage = "FS_model" /\ name = "initial_porosity" -> InOpen(a, Int2Q(0), Int2Q(1))
      [] stage = "PT_model" /\ name = "initial_acid_conc" -> InClosed(a, Int2Q(0), Int2Q(1))
      [] stage = "PT_model" /\ name = "steam_temperature" ->
           InClosed(a, Round(Q(38, 10)), Round(Q(2503, 10)))
      [] stage = "PT_model" /\ name = "initial_solid_fraction" -> InOpen(a, Int2Q(0), Int2Q(1))
      [] stage = "PT_model" /\ name = "final_time" -> InClosed(a, Int2Q(1), Int2Q(1440))
      [] stage = "PT_model" /\ name = "bulk_steam_conc" -> InOpen(a, Int2Q(0), Int2Q(1))
      [] stage = "EH_model" /\ name = "lambda_e" -> InClosed(a, Int2Q(0), Int2Q(1000))
      [] stage = "EH_model" /\ name = "fis_0" -> InClosed(a, Int2Q(0), Int2Q(1))
      [] stage = "EH_model" /\ name = "t_final" -> InClosed(a, Int2Q(1), Int2Q(24))
      [] stage = "BR_model" /\ name = "gas_velocity" -> Le(Int2Q(0), a)
      [] stage = "BR_model" /\ name = "column_diameter" -> InClosed(a, Int2Q(1), Int2Q(6))
      [] stage = "BR_model" /\ name = "t_final" -> Le(Int2Q(1), a)
      [] name = "model_type" -> FALSE
      [] OTHER -> TRUE

StoredValue(stage, name, a) ==
    CASE stage = "PT_model" /\ name = "steam_temperature" -> FAdd(a, Kelvin)
      [] stage = "PT_model" /\ name = "final_time" -> FMul(Int2Q(60), a)
      [] stage = "EH_model" /\ name = "lambda_e" -> FDiv(a, Int2Q(1000))
      [] OTHER -> a

\* names that are plain attributes (setattr rebinds them, nothing is
\* validated or persisted) and properties without a setter
PlainAttribute(stage, name) == name = "show_plots"

ReadOnlyProperty(stage, name) ==
    stage = "BR_model" /\ name \in {"column_height", "bubble_diameter"}

\* setattr(model, var_name, value)
SetAttr(w, stage, name, a) ==
    IF PlainAttribute(stage, name) THEN [w |-> w, err |-> "none"]
    ELSE IF ReadOnlyProperty(stage, name) THEN [w |-> w, err |-> "AttributeError"]
    ELSE IF ~SetterAccepts(stage, name, a) THEN [w |-> w, err |-> "ValueError"]
    ELSE LET f == StageField(stage)
             w1 == [w EXCEPT ![f][name] = StoredValue(stage, name, a)]
         IN  input2yaml_rewrite(w1, stage)


\* the working directory a stage's run() moves into, and the output section
\* it writes
RunDir(stage) ==
    CASE stage = "PT_model" -> PT_dir
      [] stage = "EH_model" -> EH_dir
      [] stage = "BR_model" -> BR_dir

OutputSection(stage) ==
    CASE stage = "PT_model" -> "pretreatment_output"
      [] stage = "EH_model" -> "enzymatic_output"
      [] stage = "BR_model" -> "bioreactor_output"

\* Pretreatment.run and EnzymaticHydrolysis.run_eh_cfd_surrogate: move into
\* the stage's directory, call the external model (out: whether it raises,
\* and the value it computes), persist the output section, move back.  An
\* exception of the external model leaves the working directory where it is.
RunInDir(w, stage, out) ==
    LET w1 == [w EXCEPT !.cwd = RunDir(stage)]
    IN  IF out.raise
        THEN [w |-> w1, err |-> "StageError"]
        ELSE [w |-> [w1 EXCEPT !.yaml[OutputSection(stage)] = <<out.v>>,
                               !.cwd = notebookDir],
              err |-> "none"]

\* Bioreactor.run_biorector_cfd_surrogate: nothing is run or written while
\* the enzymatic output holds NaN
run_biorector_cfd_surrogate(w, out) ==
    IF w.yaml["enzymatic_output"] = <<>>
    THEN [w |-> w, err |-> "KeyError"]
    ELSE IF IsNaN(w.yaml["enzymatic_output"][1])
         THEN [w |-> w, err |-> "none"]
         ELSE RunInDir(w, "BR_model", out)

\* model.run(verbose=verbose)
Run(w, stage, out) ==
    IF stage = "BR_model" THEN run_biorector_cfd_surrogate(w, out)
    ELSE RunInDir(w, stage, out)

\* the state after a run() call, with the stages whose run() was invoked
Ran(r, runs) == [w |-> r.w, err |-> r.err, runs |-> runs]

\* ---------------------------------------------------- the pipeline controller
\* run_models_with_new_values, lines 104-107: for every (var_name, value)
\* pair, for every model that has the attribute, setattr; i and j are the
\* positions in var_names and models_list.  A raising setter ends the loop.
\* r = [w, err] is the state reached so far.
\* a setter loop that leaves the inner loop at the first stage that has
\* the attribute
RECURSIVE ApplyUpdates_FirstMatch(_, _, _, _, _, _)
ApplyUpdates_FirstMatch(r, models_list, var_names, dims, i, j) ==
    IF r.err # "none" \/ i > Len(var_names) \/ i > Len(dims) THEN r
    ELSE IF j > Len(models_list)
         THEN ApplyUpdates_FirstMatch(r, models_list, var_names, dims, i + 1, 1)
         ELSE IF ~HasAttr(models_list[j], var_names[i])
              THEN ApplyUpdates_FirstMatch(r, models_list, var_names, dims, i, j + 1)
              ELSE ApplyUpdates_FirstMatch(
                       SetAttr(r.w, models_list[j], var_names[i], dims[i]),
                       models_list, var_names, dims, i + 1, 1)

RECURSIVE ApplyUpdates(_, _, _, _, _, _)
ApplyUpdates(r, models_list, var_names, dims, i, j) ==
    IF r.err # "none" \/ i > Len(var_names) \/ i > Len(dims) THEN r
    ELSE IF j > Len(models_list)
         THEN ApplyUpdates(r, models_list, var_names, dims, i + 1, 1)
         ELSE IF ~HasAttr(models_list[j], var_names[i])
              THEN ApplyUpdates(r, models_list, var_names, dims, i, j + 1)
              ELSE ApplyUpdates(SetAttr(r.w, models_list[j], var_names[i], dims[i]),
                                models_list, var_names, dims, i, j + 1)

\* lines 112-113: run models_list[1:] in order; r = [w, err, runs] is the
\* state reached so far, runs the stages whose run() has been invoked
RECURSIVE RunStages(_, _, _, _)
RunStages(r, models_list, outs, j) ==
    IF r.err # "none" \/ j > Len(models_list) THEN r
    ELSE RunStages(Ran(Run(r.w, models_list[j], outs[models_list[j]]),
                       Append(r.runs, models_list[j])),
                   models_list, outs, j + 1)

\* lines 115-117: the requested field of the requested output section
ReadObjective(w, output_name, objective_name) ==
    IF w.yaml[output_name] = <<>> \/ objective_name # tracked_key
    THEN [err |-> "KeyError", obj |-> NaN]
    ELSE [err |-> "none", obj |-> w.yaml[output_name][1]]

\* run_models_with_new_values(dimensional_values): o is the object
\* ([models_list, var_names, output_name, objective_name]), outs the
\* behaviour of the external stage models during this call
\* The result is [w, err, obj, runs, updated]: the state left behind, the
\* exception ("none" when it returns), the value returned, the stages run,
\* and whether the setter loop completed.
\* lines 115-117, r the state after the runs
ReadBack(r, o) ==
    IF r.err # "none"
    THEN [w |-> r.w, err |-> r.err, obj |-> NaN, runs |-> r.runs, updated |-> TRUE]
    ELSE [w |-> r.w, err |-> ReadObjective(r.w, o.output_name, o.objective_name).err,
          obj |-> ReadObjective(r.w, o.output_name, o.objective_name).obj,
          runs |-> r.runs, updated |-> TRUE]

\* a pipeline whose run loop starts one stage late (models_list[2:])
RunPipeline_SkipsPretreatment(u, o, outs) ==
    IF u.err # "none"
    THEN [w |-> u.w, err |-> u.err, obj |-> NaN, runs |-> <<>>, updated |-> FALSE]
    ELSE ReadBack(RunStages([w |-> [u.w EXCEPT !.cwd = notebookDir], err |-> "none",
                             runs |-> <<>>],
                            o.models_list, outs, 3), o)

\* lines 109-113, u the state after the setter loop
RunPipeline(u, o, outs) ==
    IF u.err # "none"
    THEN [w |-> u.w, err |-> u.err, obj |-> NaN, runs |-> <<>>, updated |-> FALSE]
    ELSE ReadBack(RunStages([w |-> [u.w EXCEPT !.cwd = notebookDir], err |-> "none",
                             runs |-> <<>>],
                            o.models_list, outs, 2), o)

run_models_with_new_values(w, o, dims, outs) ==
    RunPipeline(ApplyUpdates([w |-> w, err |-> "none"], o.models_list, o.var_names,
                             dims, 1, 1), o, outs)

\* ------------------------------------------------------- the variable binder
\* normalize without the lower bound subtracted
normalize_NoOffset(value, bounds) == FDiv(value, FSub(bounds[2], bounds[1]))

\* Optimization.normalize, used where ub # lb
normalize(value, bounds) ==
    FDiv(FSub(value, bounds[1]), FSub(bounds[2], bounds[1]))

\* scale_back without the lower bound added
scale_back_NoOffset(value, bounds) == FMul(value, FSub(bounds[2], bounds[1]))

\* Optimization.scale_back
scale_back(value, bounds) ==
    FAdd(FMul(value, FSub(bounds[2], bounds[1])), bounds[1])

\* objective_function, lines 122-124: zip(free_variables, var_real_bounds)
ScaleBackAll(free_variables, var_real_bounds) ==
    [k \in 1..(IF Len(free_variables) < Len(var_real_bounds)
               THEN Len(free_variables) ELSE Len(var_real_bounds)) |->
        scale_back(free_variables[k], var_real_bounds[k])]

\* define_n_models without the + 1 of line 96
define_n_models_ZeroBased(name) ==
    IF Index(output_names, name) = 0 THEN 0 ELSE Index(output_names, name) - 1

\* Optimization.define_n_models: 0 stands for the ValueError
define_n_models(name) == Index(output_names, name)


\* ------------------------------------------------------------ results files
\* '%.15e' and '.9e': the number of significant decimal digits written
Digits15e == 16
Digits9e == 10

RECURSIVE Pow(_, _)
Pow(b, k) == IF k = 0 THEN 1 ELSE b * Pow(b, k - 1)

RECURSIVE Log2(_)
Log2(d) == IF d <= 1 THEN 0 ELSE 1 + Log2(d \div 2)

RECURSIVE DecLen(_)
DecLen(n) == IF n < 10 THEN 1 ELSE 1 + DecLen(n \div 10)

\* the number a float is printed as with `digits` significant decimal
\* digits: n/2^k = n*5^k / 10^k, rounded (ties to even) when n*5^k has more
\* digits than asked for; NaN prints as nan
FormatE(q, digits) ==
    IF IsNaN(q) \/ q[1] = 0 THEN q
    ELSE LET k == Log2(q[2])
             N == Abs(q[1]) * Pow(5, k)
             L == DecLen(N)
             s == IF q[1] < 0 THEN -1 ELSE 1
         IN  IF L <= digits THEN q
             ELSE Q(s * RoundHalfEven(N, Pow(10, L - digits)) * Pow(10, L - digits),
                    Pow(10, k))

\* A file is [exists, header, rows]: the header line a 'w' open is followed
\* by (<<>> when the file was created by an append), then the data rows.
NoFile == [exists |-> FALSE, header |-> <<>>, rows |-> <<>>]

\* scipy_minimize, lines 83-87
MinimizeHeader(nice_var_names) ==
    <<"# Iteration">> \o nice_var_names \o <<"Objective">>

\* a sweep header without the controls' names
SweepHeader_NoNames(nice_var_names, objective_name) ==
    <<"# Iteration", objective_name>>

\* parameter_grid_sweep, lines 170-174
SweepHeader(nice_var_names, objective_name) ==
    <<"# Iteration">> \o nice_var_names \o <<objective_name>>

\* open(name, 'w') and the header line
CreateWithHeader(fs, dir, name, header) ==
    [fs EXCEPT ![<<dir, name>>] = [exists |-> TRUE, header |-> header, rows |-> <<>>]]

\* open(name, 'a') and one data row
AppendRow(fs, dir, name, row) ==
    [fs EXCEPT ![<<dir, name>>] =
        [exists |-> TRUE, header |-> @.header, rows |-> Append(@.rows, row)]]

\* objective_function, lines 140-144
MinimizeRow(fn_evals, dims, obj) ==
    [iter |-> fn_evals,
     values |-> [k \in 1..Len(dims) |-> FormatE(dims[k], Digits15e)],
     obj |-> FormatE(obj, Digits15e)]

\* a sweep row with the objective negated, as the evaluator logs it
SweepRow_Negated(i, dims, obj) ==
    [iter |-> i + 1,
     values |-> [k \in 1..Len(dims) |-> FormatE(dims[k], Digits9e)],
     obj |-> FormatE(FNeg(obj), Digits9e)]

\* parameter_grid_sweep, lines 192-196
SweepRow(i, dims, obj) ==
    [iter |-> i + 1,
     values |-> [k \in 1..Len(dims) |-> FormatE(dims[k], Digits9e)],
     obj |-> FormatE(obj, Digits9e)]

\* ------------------------------------------------------------------- grid
\* np.linspace(lb, ub, nn), nn >= 1: lb + i*step, the last point set to ub
linspace(lb, ub, nn) ==
    IF nn = 1 THEN <<lb>>
    ELSE LET step == FDiv(FSub(ub, lb), Int2Q(nn - 1))
         IN  [i \in 1..nn |->
                IF i = nn THEN ub ELSE FAdd(FMul(Int2Q(i - 1), step), lb)]

\* a grid whose first variable varies fastest
GridPoint_ColumnMajor(grid_x, nn, i) ==
    [k \in 1..Len(grid_x) |-> grid_x[k][((i \div Pow(nn, k - 1)) % nn) + 1]]

\* column i (0-based) of grid_ravel.T for meshgrid(indexing='ij') and
\* ravel(): the last variable varies fastest
GridPoint(grid_x, nn, i) ==
    LET d == Len(grid_x)
    IN  [k \in 1..d |-> grid_x[k][((i \div Pow(nn, d - k)) % nn) + 1]]

\* parameter_grid_sweep, lines 177-182
GridRavel(var_real_bounds, nn) ==
    LET grid_x == [k \in 1..Len(var_real_bounds) |->
                     linspace(var_real_bounds[k][1], var_real_bounds[k][2], nn)]
    IN  [i \in 1..Pow(nn, Len(var_real_bounds)) |-> GridPoint(grid_x, nn, i - 1)]


\* ------------------------------------------------------------------ inputs
\* The controls of the widget collections that can be flagged as
\* optimization targets, in the order the constructor meets them
\* (fs_options, pt_options, eh_options), and the settings each is tried
\* with: [is_control, min, max, value].
ControlNames == <<"initial_acid_conc", "lambda_e", "t_final">>

Descriptions ==
    [initial_acid_conc |-> "Acid Loading", lambda_e |-> "Enzymatic Load",
     t_final |-> "Final Time"]

Setting(c, lo, hi, v) == [is_control |-> c, min |-> lo, max |-> hi, value |-> v]

AcidOff == Setting(FALSE, Int2Q(0), Int2Q(1), Q(1, 2))
Acid01 == Setting(TRUE, Int2Q(0), Int2Q(1), Q(1, 2))
\* a slider reaching beyond what the setter of initial_acid_conc accepts
Acid02 == Setting(TRUE, Int2Q(0), Int2Q(2), Int2Q(1))
\* a slider with min = max
AcidPinned == Setting(TRUE, Int2Q(1), Int2Q(1), Int2Q(1))
LambdaOff == Setting(FALSE, Int2Q(10), Int2Q(20), Int2Q(15))
LambdaOn == Setting(TRUE, Int2Q(10), Int2Q(20), Int2Q(15))
\* a slider reaching beyond what the setter of lambda_e accepts
LambdaWide == Setting(TRUE, Int2Q(0), Int2Q(2048), Int2Q(1024))
\* the final time of the enzymatic stage, a name the bioreactor has too
TFinalOff == Setting(FALSE, Int2Q(1), Int2Q(24), Int2Q(24))
TFinalOn == Setting(TRUE, Int2Q(1), Int2Q(24), Int2Q(24))

WidgetSettings(name) ==
    CASE name = "initial_acid_conc" -> {AcidOff, Acid01, Acid02, AcidPinned}
      [] name = "lambda_e" -> {LambdaOff, LambdaOn, LambdaWide}
      [] name = "t_final" -> {TFinalOff, TFinalOn}

\* the settings of all the controls
WidgetChoices ==
    [{ControlNames[i] : i \in 1..Len(ControlNames)} ->
        UNION {WidgetSettings(ControlNames[i]) : i \in 1..Len(ControlNames)}]

\* obj_widjet.value: the output category and the objective's name
OutputChoices == {output_names[i] : i \in 1..Len(output_names)} \cup {"ethanol_output"}
ObjectiveChoices == {tracked_key, "no_such_key"}
ModelTypes == {"CFD Surrogate", "Lignocellulose Model"}

\* the values the external stage models are let to compute for the
\* objective field, and the value of a stage that is not the last one
ObjVals == {NaN, Int2Q(0), Int2Q(2), Int2Q(-2), Int2Q(-4), Int2Q(13)}
Nominal == Int2Q(1)

Outcome(raise, v) == [raise |-> raise, v |-> v]

OutsOf(pt, eh, br) == [PT_model |-> pt, EH_model |-> eh, BR_model |-> br]

Fine == Outcome(FALSE, Nominal)
Raises == Outcome(TRUE, Nominal)

\* what the last stage of the chain does
LastOutcomes == {Raises} \cup {Outcome(FALSE, v) : v \in ObjVals}

\* The behaviours of the external models during one call of the pipeline:
\* a stage before the last one raises, or computes its nominal output (the
\* enzymatic stage may also leave its NaN placeholder); the last stage
\* raises or computes any of ObjVals.  The outcome of a stage that is not
\* reached is left at Fine.
Outs(models_list) ==
    CASE Len(models_list) = 2 -> {OutsOf(o, Fine, Fine) : o \in LastOutcomes}
      [] Len(models_list) = 3 ->
           {OutsOf(Raises, Fine, Fine)}
               \cup {OutsOf(Fine, o, Fine) : o \in LastOutcomes}
      [] Len(models_list) = 4 ->
           {OutsOf(Raises, Fine, Fine), OutsOf(Fine, Raises, Fine),
            OutsOf(Fine, Outcome(FALSE, NaN), Fine)}
               \cup {OutsOf(Fine, Fine, o) : o \in LastOutcomes}
      [] OTHER -> {}

\* the normalized vectors objective_function is called with
NormVals == {Q(1, 2), Int2Q(1)}
TrialVectors(d) == {[k \in 1..d |-> c] : c \in NormVals}

\* the stage models' fields before construction (the widgets' values)
FS_widgets == [xylan_solid_fraction |-> Q(1, 4), glucan_solid_fraction |-> Q(1, 2),
               initial_porosity |-> Q(1, 2)]
PT_widgets == [initial_acid_conc |-> Q(1, 2), steam_temperature |-> Int2Q(150),
               initial_solid_fraction |-> Q(1, 2), final_time |-> Int2Q(15),
               bulk_steam_conc |-> Q(1, 16)]
EH_widgets == [model_type |-> "CFD Surrogate", lambda_e |-> Int2Q(15),
               fis_0 |-> Q(1, 16), t_final |-> Int2Q(24)]
BR_widgets == [model_type |-> "CFD Surrogate", gas_velocity |-> Q(1, 16),
               column_height |-> Int2Q(40), column_diameter |-> Int2Q(5),
               bubble_diameter |-> Q(1, 128), t_final |-> Int2Q(100)]

\* __init__, lines 51-63: the flagged controls from position i on, in
\* encounter order
RECURSIVE Flagged(_, _)
Flagged(st, i) ==
    IF i > Len(ControlNames) THEN <<>>
    ELSE IF st[ControlNames[i]].is_control
         THEN <<ControlNames[i]>> \o Flagged(st, i + 1)
         ELSE Flagged(st, i + 1)

\* Feedstock.__init__ .. Bioreactor.__init__: the private fields, from the
\* widgets
NewPT(st) ==
    [PT_widgets EXCEPT !.initial_acid_conc = st["initial_acid_conc"].value,
                       !.steam_temperature = FAdd(@, Kelvin),
                       !.final_time = FMul(Int2Q(60), @)]

NewEH(st) ==
    [EH_widgets EXCEPT !.lambda_e = FDiv(st["lambda_e"].value, Int2Q(1000)),
                       !.t_final = st["t_final"].value]

\* the document after the input2yaml() calls of the stages constructed
NewYaml(st, n) ==
    [s \in Sections |->
        CASE s = "feedstock" -> <<FS_widgets>>
          [] s = "pretreatment_input" -> <<NewPT(st)>>
          [] s = "enzymatic_input" -> IF n > 1 THEN <<NewEH(st)>> ELSE <<>>
          [] s = "bioreactor_input" -> IF n > 2 THEN <<BR_widgets>> ELSE <<>>
          [] OTHER -> <<>>]

\* a constructor that builds all four stages whatever the output category
NewModelsList_AllStages(n) == <<"FS_model", "PT_model", "EH_model", "BR_model">>

NewModelsList(n) ==
    <<"FS_model", "PT_model">>
        \o (IF n > 1 THEN <<"EH_model">> ELSE <<>>)
        \o (IF n > 2 THEN <<"BR_model">> ELSE <<>>)

\* a constructor without the check of lines 67-68
InitError_AllowsNoControl(out, eh_type, st) ==
    IF define_n_models(out) = 0 THEN "ValueError"
    ELSE IF define_n_models(out) > 1 /\ eh_type # "CFD Surrogate" THEN "AssertionError"
    ELSE IF \E k \in 1..Len(Flagged(st, 1)) :
               st[Flagged(st, 1)[k]].min = st[Flagged(st, 1)[k]].max
         THEN "ZeroDivisionError"
    ELSE "none"

\* a constructor whose normalize returns for bounds with ub = lb
InitError_AllowsDegenerate(out, eh_type, st) ==
    IF define_n_models(out) = 0 THEN "ValueError"
    ELSE IF define_n_models(out) > 1 /\ eh_type # "CFD Surrogate" THEN "AssertionError"
    ELSE IF Len(Flagged(st, 1)) = 0 THEN "ValueError"
    ELSE "none"

\* the exception that ends __init__, "none" when it returns
InitError(out, eh_type, st) ==
    LET n == define_n_models(out)
        names == Flagged(st, 1)
    IN  IF n = 0 THEN "ValueError"
        ELSE IF n > 1 /\ eh_type # "CFD Surrogate" THEN "AssertionError"
        ELSE IF \E k \in 1..Len(names) : st[names[k]].min = st[names[k]].max
             THEN "ZeroDivisionError"
        ELSE IF Len(names) = 0 THEN "ValueError"
        ELSE "none"

\* The argument lists, <<output, objective, model type, acid slider, enzyme
\* slider, final-time slider>>, whose object is followed through its
\* evaluations: the two-control and the one-control vectors, a control no
\* active stage has (lambda_e with the pretreatment output), a control two
\* stages have (t_final), sliders wider than their setters' ranges (in the
\* first and in the second position of the vector), a missing objective
\* field, and each length of the chain.
Followed ==
    {<<"pretreatment_output", tracked_key, "Lignocellulose Model", Acid01, LambdaOn, TFinalOff>>,
     <<"pretreatment_output", tracked_key, "CFD Surrogate", AcidOff, LambdaOn, TFinalOff>>,
     <<"enzymatic_output", tracked_key, "CFD Surrogate", Acid01, LambdaOff, TFinalOff>>,
     <<"enzymatic_output", tracked_key, "CFD Surrogate", Acid01, LambdaWide, TFinalOff>>,
     <<"bioreactor_output", tracked_key, "CFD Surrogate", Acid02, LambdaOff, TFinalOff>>,
     <<"bioreactor_output", tracked_key, "CFD Surrogate", Acid01, LambdaOn, TFinalOff>>,
     <<"bioreactor_output", tracked_key, "CFD Surrogate", AcidOff, LambdaOff, TFinalOn>>,
     <<"bioreactor_output", "no_such_key", "CFD Surrogate", Acid01, LambdaOff, TFinalOff>>}

\* the argument lists with one of the flaws a constructor is to refuse: an
\* output category that does not exist, a stage that is needed and is not a
\* CFD surrogate, a slider with min = max, no control flagged
Flawed(in) ==
    \/ in.out \notin {output_names[i] : i \in 1..Len(output_names)}
    \/ in.eh_type # "CFD Surrogate" /\ in.out # "pretreatment_output"
    \/ in.st["initial_acid_conc"] = AcidPinned
    \/ \A i \in 1..Len(ControlNames) : ~in.st[ControlNames[i]].is_control

\* the arguments of the constructor
InitInputs ==
    {in \in [out : OutputChoices, objname : ObjectiveChoices, eh_type : ModelTypes,
             st : WidgetChoices] :
        /\ \A name \in DOMAIN in.st : in.st[name] \in WidgetSettings(name)
        /\ \/ Flawed(in)
           \/ <<in.out, in.objname, in.eh_type, in.st["initial_acid_conc"],
                in.st["lambda_e"], in.st["t_final"]>> \in Followed}

\* ------------------------------------------------------------------- state
VARIABLES
    obj_widjet,         \* obj_widjet.value: <<output category, objective name>>
    eh_model_type,      \* eh_options.model_type.value
    widgets,            \* the control widgets of fs_options, pt_options, eh_options
    pc,                 \* "new", "failed" (the constructor raised), "idle",
                        \* "minimize" (inside scipy_minimize), "sweep"
    init_error,         \* the exception the constructor raised, or "none"
    output_name, objective_name, n_models, models_list,
    fn_evals, objective_scaling,
    x_0, var_names, nice_var_names, var_bounds, var_real_bounds,
    opt_results_file,   \* "unset" until scipy_minimize binds the attribute
    FS_model, PT_model, EH_model, BR_model,
    yaml,               \* the shared configuration document
    cwd,                \* the process working directory
    files,              \* the results files, by <<directory, name>>
    grid, sweep_i,      \* the grid points still to visit, the loop index i
    sweep_nn,           \* nn of the last parameter_grid_sweep call, 0 before it
    min_evals,          \* evaluations made by the running scipy_minimize
    n_calls,            \* calls of run_models_with_new_values so far
    first_value,        \* <<v>>, v the pipeline's value in the evaluation that
                        \* found fn_evals = 0 and counted; <<>> before it
    last                \* what the last operation did and returned

object == <<output_name, objective_name, n_models, models_list, x_0, var_names,
            nice_var_names, var_bounds, var_real_bounds>>
world == <<FS_model, PT_model, EH_model, BR_model, yaml, cwd>>
notebook == <<obj_widjet, eh_model_type, widgets>>
vars == <<notebook, pc, init_error, object, fn_evals, objective_scaling,
          opt_results_file, world, files, grid, sweep_i, sweep_nn, min_evals,
          n_calls, first_value, last>>

World == [FS |-> FS_model, PT |-> PT_model, EH |-> EH_model, BR |-> BR_model,
          yaml |-> yaml, cwd |-> cwd]

Obj == [models_list |-> models_list, var_names |-> var_names,
        output_name |-> output_name, objective_name |-> objective_name]

SetWorld(w) ==
    /\ FS_model' = w.FS
    /\ PT_model' = w.PT
    /\ EH_model' = w.EH
    /\ BR_model' = w.BR
    /\ yaml' = w.yaml
    /\ cwd' = w.cwd

\* what an operation reports: op, the exception that ended it ("none" when
\* it returned), the value returned, and for an evaluation the vector it
\* was given, the dimensional values, the pipeline's value, the stages run,
\* and fn_evals and objective_scaling on entry
\* `about` is the value an error message names, "" when it names none;
\* `where` is the part of the operation that raised: "pipeline" (inside
\* run_models_with_new_values), "scaling" (line 135), "log" (line 140), ""
\* otherwise.
Report(op, err, ret, x, dims, pipe, runs, updated) ==
    [op |-> op, err |-> err, about |-> "", where |-> "", ret |-> ret, x |-> x,
     dims |-> dims, pipe |-> pipe, runs |-> runs, updated |-> updated,
     evals0 |-> fn_evals, scaling0 |-> objective_scaling]

NoReport == [op |-> "none", err |-> "none", about |-> "", where |-> "", ret |-> NaN,
             x |-> <<>>, dims |-> <<>>, pipe |-> NaN, runs |-> <<>>,
             updated |-> FALSE, evals0 |-> 0, scaling0 |-> Int2Q(1)]

Init ==
    /\ \E in \in InitInputs :
         /\ obj_widjet = <<in.out, in.objname>>
         /\ eh_model_type = in.eh_type
         /\ widgets = in.st
    /\ pc = "new"
    /\ init_error = "none"
    /\ output_name = "" /\ objective_name = "" /\ n_models = 0
    /\ models_list = <<>>
    /\ fn_evals = 0
    /\ objective_scaling = Int2Q(1)
    /\ x_0 = <<>> /\ var_names = <<>> /\ nice_var_names = <<>>
    /\ var_bounds = <<>> /\ var_real_bounds = <<>>
    /\ opt_results_file = "unset"
    /\ FS_model = FS_widgets /\ PT_model = PT_widgets
    /\ EH_model = EH_widgets /\ BR_model = BR_widgets
    /\ yaml = [s \in Sections |-> <<>>]
    /\ cwd = notebookDir
    /\ files = [f \in Dirs \X FileNames |-> NoFile]
    /\ grid = <<>> /\ sweep_i = 0 /\ sweep_nn = 0 /\ min_evals = 0 /\ n_calls = 0
    /\ first_value = <<>>
    /\ last = NoReport

\* ------------------------------------------------------------- construction
\* Optimization(fs_options, pt_options, eh_options, br_options, obj_widjet, ...)
Construct ==
    LET out == obj_widjet[1]
        st == widgets
        n == define_n_models(obj_widjet[1])
        e == InitError(obj_widjet[1], eh_model_type, widgets)
        names == Flagged(widgets, 1)
        built == n > 0 /\ (n = 1 \/ eh_model_type = "CFD Surrogate")
    IN  /\ pc = "new"
        /\ pc' = IF e = "none" THEN "idle" ELSE "failed"
        /\ init_error' = e
        /\ output_name' = obj_widjet[1]
        /\ objective_name' = obj_widjet[2]
        /\ n_models' = n
        \* the stage models are built after define_n_models has returned
        /\ models_list' = IF n = 0 THEN <<>>
                          ELSE IF built THEN NewModelsList(n)
                          ELSE <<"FS_model", "PT_model">>
        /\ FS_model' = FS_model
        /\ PT_model' = IF n = 0 THEN PT_model ELSE NewPT(st)
        /\ EH_model' = IF built /\ n > 1 THEN NewEH(st) ELSE EH_model
        /\ BR_model' = BR_model
        /\ yaml' = IF n = 0 THEN yaml
                   ELSE IF built THEN NewYaml(st, n) ELSE NewYaml(st, 1)
        /\ cwd' = notebookDir
        /\ IF e = "none"
           THEN /\ x_0' = [k \in 1..Len(names) |->
                             normalize(st[names[k]].value,
                                       <<st[names[k]].min, st[names[k]].max>>)]
                /\ var_names' = names
                /\ nice_var_names' = [k \in 1..Len(names) |-> Descriptions[names[k]]]
                /\ var_real_bounds' = [k \in 1..Len(names) |->
                                         <<st[names[k]].min, st[names[k]].max>>]
                /\ var_bounds' = [k \in 1..Len(names) |-> <<Int2Q(0), Int2Q(1)>>]
           ELSE UNCHANGED <<x_0, var_names, nice_var_names, var_real_bounds, var_bounds>>
        /\ UNCHANGED <<notebook, fn_evals, objective_scaling, opt_results_file,
                       files, grid, sweep_i, sweep_nn, min_evals, n_calls, first_value>>
        /\ last' = [NoReport EXCEPT !.op = "__init__", !.err = e,
                                    !.about = IF n = 0 THEN out ELSE ""]

\* ---------------------------------------------------- the objective evaluator
\* line 130: the negation that turns the maximisation into a minimisation
raw_objective(v) == FNeg(v)

\* a scaling of the opposite sign
first_scaling_Positive(obj) == FDiv(Int2Q(1), obj)

\* line 135: the scaling the first evaluation fixes (obj is not zero)
first_scaling(obj) == FDiv(Int2Q(-1), obj)

\* an evaluator that hands back the unscaled objective
scaled_objective_Unscaled(obj, scaling) == obj

\* lines 151-154: the value handed back to the optimizer
scaled_objective(obj, scaling) == FMul(obj, scaling)

\* the exception that ends objective_function, "none" when it returns: the
\* pipeline's (line 130), the division of line 135, the unbound attribute
\* of line 140 when scipy_minimize has never been called
EvalError(pipe_err, first, obj) ==
    IF pipe_err # "none" THEN pipe_err
    ELSE IF first /\ IsZero(obj) THEN "ZeroDivisionError"
    ELSE IF opt_results_file = "unset" THEN "AttributeError"
    ELSE "none"

\* lines 133-154 for the raw objective obj, the scaling in force after line
\* 135 and the exception err; r is the result of the pipeline call.  The
\* evaluation is counted (line 137) once line 135 is passed.
Settle(x, dims, r, obj, scaling, err, counted) ==
    [w |-> r.w,
     err |-> err,
     fn_evals |-> IF counted THEN fn_evals + 1 ELSE fn_evals,
     objective_scaling |-> IF counted THEN scaling ELSE objective_scaling,
     first_value |-> IF counted /\ fn_evals = 0 THEN <<r.obj>> ELSE first_value,
     files |-> IF err = "none"
               THEN AppendRow(files, r.w.cwd, opt_results_file,
                              MinimizeRow(fn_evals + 1, dims, obj))
               ELSE files,
     report |-> [Report("objective_function", err,
                        IF err = "none" THEN scaled_objective(obj, scaling) ELSE NaN,
                        x, dims, r.obj, r.runs, r.updated)
                   EXCEPT !.where = IF r.err # "none" THEN "pipeline"
                                    ELSE IF ~counted THEN "scaling"
                                    ELSE IF err # "none" THEN "log" ELSE ""]]

\* an evaluator that counts an evaluation whose pipeline call raised
Account_CountsFailures(x, dims, r) ==
    Settle(x, dims, r, raw_objective(r.obj),
           IF fn_evals = 0 /\ ~IsZero(raw_objective(r.obj)) /\ ~IsNaN(r.obj)
           THEN first_scaling(raw_objective(r.obj)) ELSE objective_scaling,
           EvalError(r.err, fn_evals = 0, raw_objective(r.obj)),
           ~(fn_evals = 0 /\ IsZero(raw_objective(r.obj))))

\* an evaluator that leaves the scaling alone when the first objective is 0
Account_SkipsZero(x, dims, r) ==
    Settle(x, dims, r, raw_objective(r.obj),
           IF fn_evals = 0 /\ ~IsZero(raw_objective(r.obj))
           THEN first_scaling(raw_objective(r.obj)) ELSE objective_scaling,
           EvalError(r.err, FALSE, raw_objective(r.obj)),
           r.err = "none")

\* lines 130-154, r the result of the pipeline call of line 130
Account(x, dims, r) ==
    Settle(x, dims, r, raw_objective(r.obj),
           IF fn_evals = 0 /\ ~IsZero(raw_objective(r.obj))
           THEN first_scaling(raw_objective(r.obj)) ELSE objective_scaling,
           EvalError(r.err, fn_evals = 0, raw_objective(r.obj)),
           r.err = "none" /\ ~(fn_evals = 0 /\ IsZero(raw_objective(r.obj))))

\* lines 128-130, dims the dimensional values of lines 122-124
EvaluateAt(x, dims, outs) ==
    Account(x, dims, run_models_with_new_values(World, Obj, dims, outs))

\* objective_function(free_variables) as a function of the state: what it
\* leaves behind and what it reports
objective_function(x, outs) == EvaluateAt(x, ScaleBackAll(x, var_real_bounds), outs)

\* the state change of one evaluation
Evaluate(e) ==
    /\ SetWorld(e.w)
    /\ fn_evals' = e.fn_evals
    /\ objective_scaling' = e.objective_scaling
    /\ files' = e.files
    /\ first_value' = e.first_value
    /\ last' = e.report
    /\ n_calls' = n_calls + 1
    /\ UNCHANGED <<notebook, init_error, object, opt_results_file, grid, sweep_i, sweep_nn>>

\* a call of objective_function from outside scipy_minimize
ObjectiveFunctionCall(x, outs) ==
    /\ pc = "idle"
    /\ n_calls < MaxCalls
    /\ \E e \in {objective_function(x, outs)} : Evaluate(e)
    /\ UNCHANGED <<pc, min_evals>>

\* ----------------------------------------------------------- search drivers
\* scipy_minimize, lines 81-87: bind the file name, (re)create the file
\* with its header, enter opt.minimize
ScipyMinimize ==
    /\ pc = "idle"
    /\ pc' = "minimize"
    /\ opt_results_file' = opt_results_default
    /\ files' = CreateWithHeader(files, cwd, opt_results_default,
                                 MinimizeHeader(nice_var_names))
    /\ min_evals' = 0
    /\ last' = Report("scipy_minimize", "none", NaN, <<>>, <<>>, NaN, <<>>, FALSE)
    /\ UNCHANGED <<notebook, first_value, init_error, object, fn_evals, objective_scaling, world, grid,
                   sweep_i, sweep_nn, n_calls>>

\* opt.minimize calls objective_fn: at x_0 first, then wherever it likes
\* inside the bounds; an exception of objective_fn leaves scipy_minimize
MinimizeEval(x, outs) ==
    /\ pc = "minimize"
    /\ n_calls < MaxCalls
    /\ min_evals = 0 => x = x_0
    /\ \E e \in {objective_function(x, outs)} :
           /\ Evaluate(e)
           /\ pc' = IF e.err = "none" THEN "minimize" ELSE "idle"
           /\ min_evals' = IF e.err = "none" THEN min_evals + 1 ELSE min_evals

\* opt.minimize returns, line 91
MinimizeReturn ==
    /\ pc = "minimize"
    /\ min_evals >= 1
    /\ pc' = "idle"
    /\ last' = Report("scipy_minimize", "none", NaN, <<>>, <<>>, NaN, <<>>, FALSE)
    /\ UNCHANGED <<notebook, first_value, init_error, object, fn_evals, objective_scaling, opt_results_file,
                   world, files, grid, sweep_i, sweep_nn, min_evals, n_calls>>

\* parameter_grid_sweep(nn), lines 170-185: the header, the grid, chdir
ParameterGridSweep(nn) ==
    /\ pc = "idle"
    /\ pc' = "sweep"
    /\ files' = CreateWithHeader(files, cwd, sweep_results_default,
                                 SweepHeader(nice_var_names, objective_name))
    /\ grid' = GridRavel(var_real_bounds, nn)
    /\ sweep_i' = 0
    /\ sweep_nn' = nn
    /\ cwd' = notebookDir
    /\ last' = Report("parameter_grid_sweep", "none", NaN, <<>>, <<>>, NaN, <<>>, FALSE)
    /\ UNCHANGED <<notebook, first_value, init_error, object, fn_evals, objective_scaling, opt_results_file,
                   FS_model, PT_model, EH_model, BR_model, yaml, min_evals, n_calls>>

\* lines 187-196: one grid point; an exception of the pipeline ends the sweep
SweepStep(outs) ==
    /\ pc = "sweep"
    /\ grid # <<>>
    /\ \E dims \in {Head(grid)} :
       \E r \in {run_models_with_new_values(World, Obj, dims, outs)} :
           /\ SetWorld(r.w)
           /\ pc' = IF r.err = "none" THEN "sweep" ELSE "idle"
           /\ files' = IF r.err = "none"
                       THEN AppendRow(files, r.w.cwd, sweep_results_default,
                                      SweepRow(sweep_i, dims, r.obj))
                       ELSE files
           /\ grid' = IF r.err = "none" THEN Tail(grid) ELSE <<>>
           /\ sweep_i' = IF r.err = "none" THEN sweep_i + 1 ELSE sweep_i
           /\ last' = Report("parameter_grid_sweep", r.err, NaN, <<>>, dims, r.obj,
                             r.runs, r.updated)
    /\ n_calls' = n_calls + 1
    /\ UNCHANGED <<notebook, first_value, init_error, object, fn_evals, objective_scaling, opt_results_file,
                   min_evals, sweep_nn>>

\* one grid point, while the pipeline may still be called
SweepPoint(outs) ==
    /\ n_calls < MaxCalls
    /\ SweepStep(outs)

\* the loop is over: 'Finished sweeps!'
SweepReturn ==
    /\ pc = "sweep"
    /\ grid = <<>>
    /\ pc' = "idle"
    /\ last' = Report("parameter_grid_sweep", "none", NaN, <<>>, <<>>, NaN, <<>>, FALSE)
    /\ UNCHANGED <<notebook, first_value, init_error, object, fn_evals, objective_scaling, opt_results_file,
                   world, files, grid, sweep_i, sweep_nn, min_evals, n_calls>>

Next ==
    \/ Construct
    \/ /\ pc = "idle"
       /\ \E x \in TrialVectors(Len(var_names)), outs \in Outs(models_list) :
            ObjectiveFunctionCall(x, outs)
    \/ ScipyMinimize
    \/ /\ pc = "minimize"
       /\ \E x \in TrialVectors(Len(var_names)) \cup {x_0}, outs \in Outs(models_list) :
            MinimizeEval(x, outs)
    \/ MinimizeReturn
    \/ /\ pc = "idle"
       /\ \E nn \in 1..MaxGrid : ParameterGridSweep(nn)
    \/ /\ pc = "sweep"
       /\ \E outs \in Outs(models_list) : SweepPoint(outs)
    \/ SweepReturn

Spec == Init /\ [][Next]_vars

\* ------------------------------------------------------ sweeps to their end
\* The sweeps of an object, every one followed to its last grid point: the
\* stages compute the value of SweepVals for the objective or raise, and a sweep
\* is started while its grid fits into MaxSweepCalls pipeline calls.
SweepVals == {Int2Q(2)}

SweepOuts(stages) ==
    {o \in Outs(stages) :
        \A st \in DOMAIN o : o[st].raise \/ o[st].v \in SweepVals \cup {Nominal}}

SweepStart(nn) ==
    /\ pc = "idle"
    /\ n_calls + Pow(nn, Len(var_names)) <= MaxSweepCalls
    /\ ParameterGridSweep(nn)

SweepNext ==
    \/ Construct
    \/ \E nn \in 1..MaxGrid : SweepStart(nn)
    \/ /\ pc = "sweep"
       /\ \E outs \in SweepOuts(models_list) : SweepStep(outs)
    \/ SweepReturn

SweepSpec == Init /\ [][SweepNext]_vars

\* ------------------------------------------------------ the binder on its own
\* normalize and scale_back as the constructor and the evaluator use them
\* on one control: the slider's value is normalized with the slider's
\* bounds (lines 54-55), and the normalized value is scaled back with the
\* same bounds (lines 122-124).  The sliders tried: bounds lb < ub and every
\* float value of the quarter grid within them.
BinderLower == {Int2Q(-2), Int2Q(0), Int2Q(1), Int2Q(10)}
BinderUpper == {Int2Q(1), Int2Q(3), Int2Q(20), Int2Q(24)}
BinderValues == {v \in {Q(k, 4) : k \in -8..96} : Round(v) = v}

BinderSliders ==
    {Setting(TRUE, lb, ub, v) : lb \in BinderLower, ub \in BinderUpper, v \in BinderValues}

BinderInit ==
    /\ obj_widjet = <<"pretreatment_output", tracked_key>>
    /\ eh_model_type = "CFD Surrogate"
    /\ \E sl \in BinderSliders :
          /\ Lt(sl.min, sl.max) /\ Le(sl.min, sl.value) /\ Le(sl.value, sl.max)
          /\ widgets = [initial_acid_conc |-> sl, lambda_e |-> LambdaOff,
                        t_final |-> TFinalOff]
    /\ pc = "binder"
    /\ init_error = "none"
    /\ output_name = "" /\ objective_name = "" /\ n_models = 0
    /\ models_list = <<>>
    /\ fn_evals = 0
    /\ objective_scaling = Int2Q(1)
    /\ x_0 = <<>> /\ var_names = <<>> /\ nice_var_names = <<>>
    /\ var_bounds = <<>> /\ var_real_bounds = <<>>
    /\ opt_results_file = "unset"
    /\ FS_model = FS_widgets /\ PT_model = PT_widgets
    /\ EH_model = EH_widgets /\ BR_model = BR_widgets
    /\ yaml = [s \in Sections |-> <<>>]
    /\ cwd = notebookDir
    /\ files = [f \in Dirs \X FileNames |-> NoFile]
    /\ grid = <<>> /\ sweep_i = 0 /\ sweep_nn = 0 /\ min_evals = 0 /\ n_calls = 0
    /\ first_value = <<>>
    /\ last = NoReport

\* lines 54-63 for the flagged controls: x_0 and the bounds
BindControls ==
    /\ pc = "binder"
    /\ x_0 = <<>>
    /\ \E names \in {Flagged(widgets, 1)} :
          /\ x_0' = [k \in 1..Len(names) |->
                       normalize(widgets[names[k]].value,
                                 <<widgets[names[k]].min, widgets[names[k]].max>>)]
          /\ var_names' = names
          /\ nice_var_names' = [k \in 1..Len(names) |-> Descriptions[names[k]]]
          /\ var_real_bounds' = [k \in 1..Len(names) |->
                                   <<widgets[names[k]].min, widgets[names[k]].max>>]
          /\ var_bounds' = [k \in 1..Len(names) |-> <<Int2Q(0), Int2Q(1)>>]
    /\ last' = [NoReport EXCEPT !.op = "normalize"]
    /\ UNCHANGED <<notebook, pc, init_error, output_name, objective_name, n_models,
                   models_list, fn_evals, objective_scaling, opt_results_file, world,
                   files, grid, sweep_i, sweep_nn, min_evals, n_calls, first_value>>

\* lines 122-124 at x_0: the dimensional values
ScaleBackControls ==
    /\ pc = "binder"
    /\ x_0 # <<>>
    /\ last.op = "normalize"
    /\ last' = [NoReport EXCEPT !.op = "scale_back", !.x = x_0,
                                !.dims = ScaleBackAll(x_0, var_real_bounds)]
    /\ UNCHANGED <<notebook, pc, init_error, object, fn_evals, objective_scaling,
                   opt_results_file, world, files, grid, sweep_i, sweep_nn, min_evals,
                   n_calls, first_value>>

BinderNext == BindControls \/ ScaleBackControls

BinderSpec == BinderInit /\ [][BinderNext]_vars

\* ------------------------------------------------- the stage parameter interface
\* The properties of the four stage classes that are declared with a setter
\* (model_type, which takes a string, aside), and the values a caller sets
\* them to: one below the setter's interval, one the setter's condition
\* accepts (and that differs from the widget's value), one above the
\* interval.  The values next to a limit are the floats next to it.
Params ==
    {<<"FS_model", "xylan_solid_fraction">>, <<"FS_model", "glucan_solid_fraction">>,
     <<"FS_model", "initial_porosity">>,
     <<"PT_model", "initial_acid_conc">>, <<"PT_model", "steam_temperature">>,
     <<"PT_model", "initial_solid_fraction">>, <<"PT_model", "final_time">>,
     <<"PT_model", "bulk_steam_conc">>,
     <<"EH_model", "lambda_e">>, <<"EH_model", "fis_0">>, <<"EH_model", "t_final">>,
     <<"BR_model", "gas_velocity">>, <<"BR_model", "column_height">>,
     <<"BR_model", "column_diameter">>, <<"BR_model", "bubble_diameter">>,
     <<"BR_model", "t_final">>}

\* the floats next to 0 (below), next to 1 (below and above)
BelowZero == <<-1, Pow2(2 * Prec)>>
BelowOne == <<Pow2(Prec) - 1, Pow2(Prec)>>
AboveOne == <<Pow2(Prec - 1) + 1, Pow2(Prec - 1)>>

TrialValues(stage, name) ==
    CASE name \in {"xylan_solid_fraction", "glucan_solid_fraction", "initial_porosity",
                   "initial_acid_conc", "initial_solid_fraction"} ->
           {BelowZero, Q(1, 4), AboveOne}
      [] name = "steam_temperature" -> {Q(7, 2), Int2Q(100), Int2Q(256)}
      [] name = "final_time" -> {BelowOne, Int2Q(30), Int2Q(1536)}
      [] name \in {"bulk_steam_conc", "fis_0"} -> {BelowZero, Q(1, 2), AboveOne}
      [] name = "lambda_e" -> {BelowZero, Int2Q(16), Int2Q(1008)}
      [] stage = "EH_model" /\ name = "t_final" ->
           {BelowOne, Int2Q(12), <<24 * Pow2(Prec - 5) + 1, Pow2(Prec - 5)>>}
      [] name = "gas_velocity" -> {BelowZero, Q(1, 32), Q(1, 2)}
      [] name = "column_height" -> {Q(1, 2), Int2Q(20), Int2Q(60)}
      [] name = "column_diameter" ->
           {BelowOne, Int2Q(2), <<6 * Pow2(Prec - 3) + 1, Pow2(Prec - 3)>>}
      [] name = "bubble_diameter" -> {Q(1, 512), Q(1, 256), Q(1, 2)}
      [] stage = "BR_model" /\ name = "t_final" -> {BelowOne, Int2Q(50)}

\* the widgets the four stages are constructed from when they are used on
\* their own
StageWidgets ==
    [initial_acid_conc |-> Acid01, lambda_e |-> LambdaOn, t_final |-> TFinalOff]

\* the document once the chain of stages has run
RanYaml(y) ==
    [y EXCEPT !["pretreatment_output"] = <<Nominal>>,
              !["enzymatic_output"] = <<Nominal>>,
              !["bioreactor_output"] = <<Nominal>>]

\* Feedstock(...), Pretreatment(...), EnzymaticHydrolysis(...), Bioreactor(...)
\* constructed in the notebook directory, before or after a run of the chain
SetterInit ==
    /\ obj_widjet = <<"bioreactor_output", tracked_key>>
    /\ eh_model_type = "CFD Surrogate"
    /\ widgets = StageWidgets
    /\ pc = "stages"
    /\ init_error = "none"
    /\ output_name = "" /\ objective_name = "" /\ n_models = 0
    /\ models_list = <<>>
    /\ fn_evals = 0
    /\ objective_scaling = Int2Q(1)
    /\ x_0 = <<>> /\ var_names = <<>> /\ nice_var_names = <<>>
    /\ var_bounds = <<>> /\ var_real_bounds = <<>>
    /\ opt_results_file = "unset"
    /\ FS_model = FS_widgets /\ PT_model = NewPT(StageWidgets)
    /\ EH_model = NewEH(StageWidgets) /\ BR_model = BR_widgets
    /\ yaml \in {NewYaml(StageWidgets, 3), RanYaml(NewYaml(StageWidgets, 3))}
    /\ cwd = notebookDir
    /\ files = [f \in Dirs \X FileNames |-> NoFile]
    /\ grid = <<>> /\ sweep_i = 0 /\ sweep_nn = 0 /\ min_evals = 0 /\ n_calls = 0
    /\ first_value = <<>>
    /\ last = NoReport

\* model.<name> = a, from outside the pipeline: `where` is the stage, `about`
\* the property, x the value
SetParameter(stage, name, a) ==
    /\ pc = "stages"
    /\ n_calls < MaxCalls
    /\ \E r \in {SetAttr(World, stage, name, a)} :
           /\ SetWorld(r.w)
           /\ last' = [NoReport EXCEPT !.op = "setattr", !.err = r.err,
                                       !.about = name, !.where = stage, !.x = <<a>>]
    /\ n_calls' = n_calls + 1
    /\ UNCHANGED <<notebook, pc, init_error, object, fn_evals, objective_scaling,
                   opt_results_file, files, grid, sweep_i, sweep_nn, min_evals, first_value>>

SetterNext ==
    \E p \in Params : \E a \in TrialValues(p[1], p[2]) : SetParameter(p[1], p[2], a)

SetterSpec == SetterInit /\ [][SetterNext]_vars

\* ------------------------------------------------------------------ claims
IsPrefix(s, t) == Len(s) <= Len(t) /\ SubSeq(t, 1, Len(s)) = s

PipelineOrder == <<"PT_model", "EH_model", "BR_model">>

\* the last operation was a call of the pipeline that got past the setters
PipelineCalled ==
    last.op \in {"objective_function", "parameter_grid_sweep"} /\ last.updated

\* C1: in every call of run_models_with_new_values the stages whose run() is
\* invoked are, in this order and once each, Pretreatment, EnzymaticHydrolysis
\* and Bioreactor as far as they are in models_list: all of them when the
\* call returns, those up to the raising stage when a run() raises, none
\* when a setter raised; Feedstock's run() is never invoked.
C1_RunOrder ==
    IF pc \in {"new", "failed"} THEN last.runs = <<>>
    ELSE /\ models_list[1] = "FS_model"
         /\ Tail(models_list) = SubSeq(PipelineOrder, 1, n_models)
         /\ \A k \in 1..Len(last.runs) : last.runs[k] # "FS_model"
         /\ IsPrefix(last.runs, Tail(models_list))
         /\ PipelineCalled /\ last.err = "none" => last.runs = Tail(models_list)
         /\ PipelineCalled /\ last.err = "StageError" => last.runs # <<>>
         /\ ~last.updated => last.runs = <<>>

\* a call with the full chain returned after running all three stages
C1_Witness ==
    /\ last.op = "objective_function"
    /\ last.err = "none"
    /\ last.runs = PipelineOrder

\* C2: define_n_models gives 1, 2, 3 for pretreatment_output,
\* enzymatic_output, bioreactor_output; for any other name the constructor
\* ends in a ValueError naming that value, with no stage model built (no
\* model in models_list, no section of the document written).
C2_DefineNModels ==
    pc # "new" =>
        /\ output_name = "pretreatment_output" => n_models = 1
        /\ output_name = "enzymatic_output" => n_models = 2
        /\ output_name = "bioreactor_output" => n_models = 3
        /\ output_name \notin {"pretreatment_output", "enzymatic_output",
                               "bioreactor_output"} =>
              /\ pc = "failed"
              /\ init_error = "ValueError"
              /\ last.about = output_name
              /\ models_list = <<>>
              /\ \A sec \in Sections : yaml[sec] = <<>>
              /\ PT_model = PT_widgets /\ EH_model = EH_widgets

\* the constructor was given an output category that does not exist
C2_Witness ==
    /\ pc = "failed"
    /\ output_name = "ethanol_output"
    /\ init_error = "ValueError"
    /\ last.about = "ethanol_output"

\* the evaluation reported in `last` returned a value
Returned == last.op = "objective_function" /\ last.err = "none"

\* C3 as stated: every call of objective_function returns the negated
\* pipeline value times the scaling factor, and the first evaluation that
\* returns (fn_evals = 0 on entry) returns exactly -1.0.
C3_AsClaimed ==
    Returned =>
        /\ last.ret = FMul(FNeg(last.pipe), objective_scaling)
        /\ last.evals0 = 0 => last.ret = Int2Q(-1)

\* C3, amended: every call of objective_function that returns, returns the
\* float product of the negated pipeline value and the scaling factor; the
\* first such evaluation returns -1.0 up to the rounding of the division and
\* of the product (-1.0 or the float next to it towards zero), and NaN when
\* the pipeline's value is NaN.
C3_ScaledReturn ==
    Returned =>
        /\ last.ret = FMul(FNeg(last.pipe), objective_scaling)
        /\ last.evals0 = 0 =>
              IF IsNaN(last.pipe) THEN IsNaN(last.ret)
              ELSE /\ Le(Int2Q(-1), last.ret)
                   /\ Le(last.ret, <<1 - Pow2(Prec), Pow2(Prec)>>)

\* a first evaluation whose division and product do not round back to -1.0
C3_Witness ==
    /\ Returned
    /\ last.evals0 = 0
    /\ ~IsNaN(last.pipe)
    /\ last.ret # Int2Q(-1)

\* C4 as stated: a first evaluation whose pipeline value is -4.0 sets the
\* scaling factor to 0.25 and returns -1.0; a second evaluation whose
\* pipeline value is -2.0 then returns -0.5.
C4_AsClaimed ==
    /\ Returned /\ last.evals0 = 0 /\ last.pipe = Int2Q(-4) =>
          objective_scaling = Q(1, 4) /\ last.ret = Int2Q(-1)
    /\ Returned /\ last.evals0 = 1 /\ first_value = <<Int2Q(-4)>>
           /\ last.pipe = Int2Q(-2) =>
          last.ret = Q(-1, 2)

\* C4, amended: a first evaluation whose pipeline value is -4.0 (raw
\* objective 4.0) sets the scaling factor to -0.25 and returns -1.0; a
\* second evaluation whose pipeline value is -2.0 then returns -0.5.
C4_ScalingExample ==
    /\ Returned /\ last.evals0 = 0 /\ last.pipe = Int2Q(-4) =>
          objective_scaling = Q(-1, 4) /\ last.ret = Int2Q(-1)
    /\ Returned /\ last.evals0 = 1 /\ first_value = <<Int2Q(-4)>>
           /\ last.pipe = Int2Q(-2) =>
          objective_scaling = Q(-1, 4) /\ last.ret = Q(-1, 2)

\* the second evaluation of the example has returned
C4_Witness ==
    /\ Returned
    /\ last.evals0 = 1
    /\ first_value = <<Int2Q(-4)>>
    /\ last.pipe = Int2Q(-2)
    /\ last.ret = Q(-1, 2)

\* the first evaluation of an object with the controls (0, 1) and (10, 20),
\* at the normalized vector (0.5, 0.5)
C5_Case ==
    /\ Returned
    /\ last.evals0 = 0
    /\ var_real_bounds = <<<<Int2Q(0), Int2Q(1)>>, <<Int2Q(10), Int2Q(20)>>>>
    /\ x_0 = <<Q(1, 2), Q(1, 2)>>
    /\ last.x = x_0

\* C5: in that evaluation the pipeline is given (0.5, 15.0); when it returns
\* 2.0 the log holds one data row, iteration 1 with 0.5, 15.0 and the
\* objective -2.0, and the scaling factor is 0.5.
C5_EndToEnd ==
    C5_Case =>
        /\ last.dims = <<Q(1, 2), Int2Q(15)>>
        /\ last.pipe = Int2Q(2) =>
              /\ files[<<cwd, opt_results_file>>].rows =
                     <<[iter |-> 1, values |-> <<Q(1, 2), Int2Q(15)>>,
                        obj |-> Int2Q(-2)]>>
              /\ objective_scaling = Q(1, 2)

C5_Witness == C5_Case /\ last.pipe = Int2Q(2) /\ fn_evals = 1

\* C6 as stated: over any sequence of objective_function calls, sweeps and
\* scipy_minimize calls the scaling factor keeps its initial 1.0 until the
\* first successful evaluation, is assigned -1.0/raw_objective during that
\* evaluation and never changes again: a step changes it only if it is an
\* evaluation that found fn_evals = 0 and returned, and then to that value.
C6_AsClaimed ==
    [][objective_scaling' # objective_scaling =>
          /\ fn_evals = 0
          /\ objective_scaling = Int2Q(1)
          /\ last'.op = "objective_function"
          /\ last'.err = "none"
          /\ objective_scaling' = FDiv(Int2Q(-1), FNeg(last'.pipe))]_vars

\* C7 as stated: whenever an evaluation made inside a scipy_minimize call
\* has returned, the log of that call holds the header row and one data row
\* per evaluation made during the call, numbered 1, 2, 3, ... in order.
C7_AsClaimed ==
    pc = "minimize" /\ min_evals >= 1 =>
        /\ files[<<cwd, opt_results_file>>].header = MinimizeHeader(nice_var_names)
        /\ Len(files[<<cwd, opt_results_file>>].rows) = min_evals
        /\ \A k \in 1..Len(files[<<cwd, opt_results_file>>].rows) :
               files[<<cwd, opt_results_file>>].rows[k].iter = k

\* C8: an evaluation whose pipeline call raises (a setter, a run(), the
\* read-back of the objective) ends in that exception after this one
\* pipeline call, and leaves fn_evals, the scaling factor and every results
\* file as they were.
C8_PipelineFailure ==
    [][last'.op = "objective_function" /\ last'.where = "pipeline" =>
          /\ last'.err # "none"
          /\ n_calls' = n_calls + 1
          /\ fn_evals' = fn_evals
          /\ objective_scaling' = objective_scaling
          /\ files' = files]_vars

\* the pipeline raised in an evaluation that followed a logged one
C8_Witness ==
    /\ last.op = "objective_function"
    /\ last.where = "pipeline"
    /\ last.err # "none"
    /\ fn_evals = 1
    /\ opt_results_file # "unset"
    /\ Len(files[<<notebookDir, opt_results_file>>].rows) = 1

\* C9: an evaluation that finds fn_evals = 0 and gets a pipeline value of
\* exactly 0 ends in the ZeroDivisionError of line 135; fn_evals is still 0,
\* the scaling factor still 1.0, and no log holds a data row.
C9_ZeroObjective ==
    /\ last.op = "objective_function" /\ last.where # "pipeline"
       /\ last.evals0 = 0 /\ IsZero(last.pipe) =>
          /\ last.err = "ZeroDivisionError"
          /\ fn_evals = 0
          /\ objective_scaling = Int2Q(1)
          /\ \A d \in Dirs : files[<<d, opt_results_default>>].rows = <<>>

\* the first evaluation of a scipy_minimize call got a zero objective
C9_Witness ==
    /\ last.op = "objective_function"
    /\ last.err = "ZeroDivisionError"
    /\ IsZero(last.pipe)
    /\ opt_results_file # "unset"
    /\ fn_evals = 0

\* the constructor got as far as the loop over the controls: the output
\* category exists and the stages it needs are CFD surrogates
ReachedControls == pc # "new" /\ n_models > 0 /\ init_error # "AssertionError"

\* C10: a constructor that finds no control flagged ends in a ValueError;
\* one that finds exactly one control flagged (with min < max) returns, and
\* x_0, var_names, var_bounds and var_real_bounds have length 1.
C10_ControlCount ==
    ReachedControls =>
        /\ Flagged(widgets, 1) = <<>> => pc = "failed" /\ init_error = "ValueError"
        /\ Len(Flagged(widgets, 1)) = 1
             /\ widgets[Flagged(widgets, 1)[1]].min # widgets[Flagged(widgets, 1)[1]].max =>
                /\ pc # "failed" /\ init_error = "none"
                /\ Len(x_0) = 1 /\ Len(var_names) = 1
                /\ Len(var_bounds) = 1 /\ Len(var_real_bounds) = 1

\* no control was flagged and the constructor raised its ValueError
C10_Witness ==
    /\ ReachedControls
    /\ Flagged(widgets, 1) = <<>>
    /\ pc = "failed"
    /\ init_error = "ValueError"

\* some flagged control of the constructor's arguments has min = max
DegenerateFlagged ==
    \E k \in 1..Len(Flagged(widgets, 1)) :
        widgets[Flagged(widgets, 1)[k]].min = widgets[Flagged(widgets, 1)[k]].max

\* C11: a constructor given a flagged control whose bounds have max = min
\* ends in an exception, and no object that was constructed has a variable
\* whose real bounds have upper = lower.
C11_DegenerateRejected ==
    /\ pc # "new" /\ DegenerateFlagged => pc = "failed" /\ init_error # "none"
    /\ pc \notin {"new", "failed"} =>
          \A k \in 1..Len(var_real_bounds) : var_real_bounds[k][1] # var_real_bounds[k][2]

\* the division of normalize ended a constructor that had got to its controls
C11_Witness ==
    /\ ReachedControls
    /\ DegenerateFlagged
    /\ pc = "failed"
    /\ init_error = "ZeroDivisionError"

\* stands for the 1e16 of the setters' messages: above every value set
Huge == Int2Q(Pow2(20))

\* the interval the condition under a property's setter declaration states
\* (its closed hull), and the interval the setter's error message names
ConditionInterval(stage, name) ==
    CASE name \in {"xylan_solid_fraction", "glucan_solid_fraction", "initial_porosity",
                   "initial_acid_conc", "initial_solid_fraction", "bulk_steam_conc",
                   "fis_0"} -> <<Int2Q(0), Int2Q(1)>>
      [] name = "steam_temperature" -> <<Round(Q(38, 10)), Round(Q(2503, 10))>>
      [] name = "final_time" -> <<Int2Q(1), Int2Q(1440)>>
      [] name = "lambda_e" -> <<Int2Q(0), Int2Q(1000)>>
      [] stage = "EH_model" /\ name = "t_final" -> <<Int2Q(1), Int2Q(24)>>
      [] name = "gas_velocity" -> <<Round(Q(1, 100)), Round(Q(1, 10))>>
      [] name = "column_height" -> <<Int2Q(10), Int2Q(50)>>
      [] name = "column_diameter" -> <<Int2Q(1), Int2Q(6)>>
      [] name = "bubble_diameter" -> <<Round(Q(3, 1000)), Round(Q(8, 1000))>>
      [] stage = "BR_model" /\ name = "t_final" -> <<Int2Q(1), Huge>>

MessageInterval(stage, name) ==
    IF stage = "BR_model" THEN <<Int2Q(1), Huge>> ELSE ConditionInterval(stage, name)

Outside(a, interval) == Lt(a, interval[1]) \/ Lt(interval[2], a)

\* a is outside the interval of the property, whichever of the two is read
\* as the documented one
OutsideDocumented(stage, name, a) ==
    /\ Outside(a, ConditionInterval(stage, name))
    /\ Outside(a, MessageInterval(stage, name))

\* C12 as stated: setting a property of a stage that is declared with a
\* setter to a value outside its documented interval ends in a ValueError and
\* leaves the stage's fields and the configuration document as they were.
C12_AsClaimed ==
    [][last'.op = "setattr"
         /\ OutsideDocumented(last'.where, last'.about, last'.x[1]) =>
           /\ last'.err = "ValueError"
           /\ UNCHANGED world]_vars

\* the section of the document that belongs to the stage last set
OwnSection == yaml[InputSection(last.where)]

\* the fields of a stage
FieldsOf(stage, fs, pt, eh, br) ==
    CASE stage = "FS_model" -> fs
      [] stage = "PT_model" -> pt
      [] stage = "EH_model" -> eh
      [] stage = "BR_model" -> br

\* C14: a set of a stage property that returns leaves in the stage's own
\* input section of the document the stage's full parameter block, with the
\* property's field at the value set (after its unit conversion) and the
\* other fields as before; every other section of the document, the output
\* sections included, and the other stages are as before.
C14_OwnSectionOnly ==
    [][last'.op = "setattr" /\ last'.err = "none" =>
          /\ yaml'[InputSection(last'.where)] =
                <<FieldsOf(last'.where, FS_model', PT_model', EH_model', BR_model')>>
          /\ FieldsOf(last'.where, FS_model', PT_model', EH_model', BR_model') =
                [FieldsOf(last'.where, FS_model, PT_model, EH_model, BR_model)
                    EXCEPT ![last'.about] =
                        StoredValue(last'.where, last'.about, last'.x[1])]
          /\ \A sec \in Sections \ {InputSection(last'.where)} : yaml'[sec] = yaml[sec]
          /\ \A st \in {"FS_model", "PT_model", "EH_model", "BR_model"} \ {last'.where} :
                FieldsOf(st, FS_model', PT_model', EH_model', BR_model') =
                    FieldsOf(st, FS_model, PT_model, EH_model, BR_model)]_vars

\* lambda_e was set to 16 mg/g after the chain had run: the enzymatic input
\* holds the new value, the outputs are still there
C14_Witness ==
    /\ last.op = "setattr" /\ last.err = "none"
    /\ last.where = "EH_model" /\ last.about = "lambda_e"
    /\ OwnSection = <<EH_model>>
    /\ EH_model.lambda_e = FDiv(Int2Q(16), Int2Q(1000))
    /\ yaml["enzymatic_output"] = <<Nominal>>
    /\ yaml["pretreatment_input"] = <<PT_model>>

\* C13 as stated: a call of run_models_with_new_values that ends in the
\* ValueError of a setter (a value of the vector is outside the range of a
\* stage that has the variable) leaves the configuration document as it was
\* before the call, wherever the offending variable stands in the vector.
C13_AsClaimed ==
    [][/\ last'.op \in {"objective_function", "parameter_grid_sweep"}
       /\ last'.err = "ValueError"
       /\ ~last'.updated
       => yaml' = yaml]_vars

\* no stage of models_list has an attribute named by var_names
NoMatch ==
    \A k \in 1..Len(var_names) : \A j \in 1..Len(models_list) :
        ~HasAttr(models_list[j], var_names[k])

\* C15: in a call of run_models_with_new_values whose setters all accept
\* their values, every stage of models_list that has an attribute named
\* var_names[k] holds the k-th value afterwards (every such stage, not only
\* the first); when no stage has any of the names, the call raises nothing
\* in the setter loop, changes no stage field and no input section, and
\* still runs the stages.
C15_AllMatches ==
    [][n_calls' # n_calls
         /\ last'.op \in {"objective_function", "parameter_grid_sweep"} =>
          /\ last'.updated =>
               \A k \in 1..Len(var_names) : \A j \in 1..Len(models_list) :
                   HasAttr(models_list[j], var_names[k]) =>
                       FieldsOf(models_list[j], FS_model', PT_model', EH_model',
                                BR_model')[var_names[k]]
                           = StoredValue(models_list[j], var_names[k], last'.dims[k])
          /\ NoMatch =>
               /\ last'.updated
               /\ UNCHANGED <<FS_model, PT_model, EH_model, BR_model>>
               /\ \A st \in {"FS_model", "PT_model", "EH_model", "BR_model"} :
                      yaml'[InputSection(st)] = yaml[InputSection(st)]
               /\ last'.runs # <<>>
               /\ last'.runs[1] = "PT_model"]_vars

\* t_final, which the enzymatic stage and the bioreactor both have, was set
\* to 12.5 on both
C15_Witness ==
    /\ last.op = "objective_function"
    /\ last.updated
    /\ var_names = <<"t_final">>
    /\ last.dims = <<Q(25, 2)>>
    /\ EH_model.t_final = Q(25, 2)
    /\ BR_model.t_final = Q(25, 2)

\* a call whose only variable no stage of the chain has
C15_NoMatchCase == last.updated /\ NoMatch /\ last.runs = <<"PT_model">>

\* the last parameter_grid_sweep call visited its whole grid and returned
SweepDone == pc = "idle" /\ last.op = "parameter_grid_sweep" /\ last.err = "none"

\* the data rows of the sweep's log in the notebook directory
SweepRows == files[<<notebookDir, sweep_results_default>>].rows

\* the k-th value of grid point i (1-based) of a sweep with nn points per
\* variable, the last variable varying fastest
RowMajorValue(i, k, nn) ==
    linspace(var_real_bounds[k][1], var_real_bounds[k][2], nn)
        [(((i - 1) \div Pow(nn, Len(var_names) - k)) % nn) + 1]

\* C16: a parameter_grid_sweep(nn) with nn >= 2 over d variables that
\* returns has appended exactly nn^d data rows; they are numbered 1..nn^d,
\* the first holds every variable's lower bound, the last every variable's
\* upper bound, and row i holds the i-th grid point in row-major order (the
\* last variable varies fastest).
C16_GridRows ==
    SweepDone /\ sweep_nn >= 2 =>
        /\ sweep_i = Pow(sweep_nn, Len(var_names))
        /\ Len(SweepRows) >= sweep_i
        /\ \A i \in 1..sweep_i :
              /\ SweepRows[Len(SweepRows) - sweep_i + i].iter = i
              /\ Len(SweepRows[Len(SweepRows) - sweep_i + i].values) = Len(var_names)
              /\ \A k \in 1..Len(var_names) :
                    /\ SweepRows[Len(SweepRows) - sweep_i + i].values[k]
                          = FormatE(RowMajorValue(i, k, sweep_nn), Digits9e)
                    /\ i = 1 =>
                          SweepRows[Len(SweepRows) - sweep_i + i].values[k]
                              = var_real_bounds[k][1]
                    /\ i = sweep_i =>
                          SweepRows[Len(SweepRows) - sweep_i + i].values[k]
                              = var_real_bounds[k][2]

\* a sweep with two variables and three points each has returned: nine rows
C16_Witness ==
    /\ SweepDone
    /\ sweep_nn = 3
    /\ Len(var_names) = 2
    /\ Len(SweepRows) = 9
    /\ SweepRows[2].values = <<Int2Q(0), Int2Q(15)>>
    /\ SweepRows[9].values = <<Int2Q(1), Int2Q(20)>>

\* C17: every step of a parameter_grid_sweep leaves fn_evals and the
\* scaling factor as they are; a grid point that is visited makes one call
\* of the pipeline, and the row it appends holds the value the pipeline
\* returned, neither negated nor multiplied by the scaling factor.
C17_RawSweep ==
    [][last'.op = "parameter_grid_sweep" =>
          /\ fn_evals' = fn_evals
          /\ objective_scaling' = objective_scaling
          /\ sweep_i' = sweep_i + 1 =>
                /\ n_calls' = n_calls + 1
                /\ Len(SweepRows') = Len(SweepRows) + 1
                /\ SweepRows'[Len(SweepRows')].obj = FormatE(last'.pipe, Digits9e)
                /\ SweepRows'[Len(SweepRows')].iter = sweep_i']_vars

\* a grid point was logged with the pipeline's 13.0 by an object whose
\* scaling factor an earlier evaluation had set
C17_Witness ==
    /\ last.op = "parameter_grid_sweep"
    /\ sweep_i >= 1
    /\ fn_evals = 1
    /\ objective_scaling # Int2Q(1)
    /\ last.pipe = Int2Q(13)
    /\ SweepRows[Len(SweepRows)].obj = Int2Q(13)

\* the header row the claim describes
ClaimedHeader == <<"# Iteration">> \o nice_var_names \o <<"Objective">>

\* the results file a driver has just created
MinimizeLog == files[<<cwd, opt_results_default>>]
SweepLog == files[<<cwd, sweep_results_default>>]

\* C18 as stated: the file scipy_minimize creates and the file
\* parameter_grid_sweep creates both start with the row '# Iteration', the
\* display name of every control in vector order, 'Objective'.
C18_AsClaimed ==
    [][/\ pc = "idle" /\ pc' = "minimize" =>
            MinimizeLog' = [exists |-> TRUE, header |-> ClaimedHeader, rows |-> <<>>]
       /\ pc = "idle" /\ pc' = "sweep" =>
            files'[<<cwd, sweep_results_default>>] =
                [exists |-> TRUE, header |-> ClaimedHeader, rows |-> <<>>]]_vars

\* C18, amended: scipy_minimize starts by (re)creating its results file with
\* the row '# Iteration', the display name of every control in vector order,
\* 'Objective'; parameter_grid_sweep starts by (re)creating its results file
\* with the row '# Iteration', the display name of every control in vector
\* order, and the name of the objective (objective_name) in place of
\* 'Objective'.
C18_Headers ==
    [][/\ pc = "idle" /\ pc' = "minimize" =>
            MinimizeLog' = [exists |-> TRUE, header |-> ClaimedHeader, rows |-> <<>>]
       /\ pc = "idle" /\ pc' = "sweep" =>
            files'[<<cwd, sweep_results_default>>] =
                [exists |-> TRUE,
                 header |-> <<"# Iteration">> \o nice_var_names \o <<objective_name>>,
                 rows |-> <<>>]]_vars

\* a sweep over two controls has created its file: its header names both
\* controls and ends with the objective's name
C18_Witness ==
    /\ pc = "sweep"
    /\ Len(nice_var_names) = 2
    /\ SweepLog.header = <<"# Iteration", "Acid Loading", "Enzymatic Load", tracked_key>>
    /\ SweepLog.rows = <<>>

\* exact arithmetic on the numbers floats stand for (b positive in ExDiv)
ExAdd(a, b) == <<a[1] * b[2] + b[1] * a[2], a[2] * b[2]>>
ExSub(a, b) == <<a[1] * b[2] - b[1] * a[2], a[2] * b[2]>>
ExMul(a, b) == <<a[1] * b[1], a[2] * b[2]>>
ExDiv(a, b) == <<a[1] * b[2], a[2] * b[1]>>
SameNumber(a, b) == a[1] * b[2] = b[1] * a[2]

\* the round trip of the slider's value v with the bounds (lb, ub): none of
\* its five float operations rounded
NoRounding(v, lb, ub) ==
    /\ SameNumber(FSub(v, lb), ExSub(v, lb))
    /\ SameNumber(FSub(ub, lb), ExSub(ub, lb))
    /\ SameNumber(FDiv(FSub(v, lb), FSub(ub, lb)), ExDiv(FSub(v, lb), FSub(ub, lb)))
    /\ SameNumber(FMul(FDiv(FSub(v, lb), FSub(ub, lb)), FSub(ub, lb)),
                  ExMul(FDiv(FSub(v, lb), FSub(ub, lb)), FSub(ub, lb)))
    /\ SameNumber(FAdd(FMul(FDiv(FSub(v, lb), FSub(ub, lb)), FSub(ub, lb)), lb),
                  ExAdd(FMul(FDiv(FSub(v, lb), FSub(ub, lb)), FSub(ub, lb)), lb))

\* |a - b| <= 8 * 2^-Prec * max(|lb|, |ub|)
WithinTolerance(a, b, lb, ub) ==
    \E m \in {IF Abs(lb[1]) * ub[2] >= Abs(ub[1]) * lb[2]
              THEN <<Abs(lb[1]), lb[2]>> ELSE <<Abs(ub[1]), ub[2]>>} :
        Abs(a[1] * b[2] - b[1] * a[2]) * Pow2(Prec) * m[2] <= 8 * m[1] * a[2] * b[2]

\* the round trip of the first control has been made
RoundTripMade == pc = "binder" /\ last.op = "scale_back"

\* C19: for bounds lb < ub and a value v in [lb, ub],
\* scale_back(normalize(v, (lb, ub)), (lb, ub)) is v exactly whenever the
\* arithmetic is exact (no operation of the round trip rounds), and in floats
\* it is v within floating-point tolerance (8 * 2^-Prec * max(|lb|, |ub|)).
C19_RoundTrip ==
    RoundTripMade =>
        /\ NoRounding(widgets[var_names[1]].value, var_real_bounds[1][1],
                      var_real_bounds[1][2])
              => last.dims[1] = widgets[var_names[1]].value
        /\ WithinTolerance(last.dims[1], widgets[var_names[1]].value,
                           var_real_bounds[1][1], var_real_bounds[1][2])

\* a round trip of a value strictly inside bounds with lb # 0, exact and
\* back at the value
C19_Witness ==
    /\ RoundTripMade
    /\ var_real_bounds[1] = <<Int2Q(10), Int2Q(20)>>
    /\ widgets[var_names[1]].value = Q(25, 2)
    /\ NoRounding(Q(25, 2), Int2Q(10), Int2Q(20))
    /\ last.dims[1] = Q(25, 2)

\* a round trip that rounds and does not come back to the value
C19_InexactCase ==
    /\ RoundTripMade
    /\ last.dims[1] # widgets[var_names[1]].value

\* the last operation was a pipeline call whose setters and stages all
\* returned
ChainRan == PipelineCalled /\ last.err # "StageError"

\* the pipeline call of the last operation returned a value
PipelineReturned ==
    \/ last.op = "parameter_grid_sweep" /\ last.updated /\ last.err = "none"
    \/ last.op = "objective_function" /\ last.updated /\ last.where # "pipeline"

\* C20: an object constructed for the output category at position k
\* (0-based) of output_names has n_models = k + 1; every pipeline call whose
\* setters and stages return invokes run() on exactly n_models stages, the
\* last of them the stage whose output section is the requested category,
\* and the value the call returns is the objective field of that section.
C20_StageCount ==
    pc \notin {"new", "failed", "stages", "binder"} =>
        /\ n_models = Index(output_names, output_name)
        /\ ChainRan =>
              /\ Len(last.runs) = n_models
              /\ OutputSection(last.runs[Len(last.runs)]) = output_name
        /\ PipelineReturned =>
              /\ yaml[output_name] # <<>>
              /\ last.pipe = yaml[output_name][1]

\* an evaluation for the enzymatic output ran two stages and returned the
\* field the enzymatic stage wrote
C20_Witness ==
    /\ last.op = "objective_function"
    /\ last.err = "none"
    /\ output_name = "enzymatic_output"
    /\ n_models = 2
    /\ last.runs = <<"PT_model", "EH_model">>
    /\ last.pipe = Int2Q(13)
    /\ yaml["enzymatic_output"] = <<Int2Q(13)>>

\* the setter the loop of lines 104-107 reaches first, for the dimensional
\* values dims, gets as far as its rewrite of the document (input2yaml with
\* rewrite=True reads and writes params_filename relative to the working
\* directory)
FirstSetterRewrites(dims) ==
    /\ var_names # <<>> /\ dims # <<>>
    /\ \E j \in 1..Len(models_list) :
          /\ HasAttr(models_list[j], var_names[1])
          /\ \A k \in 1..(j - 1) : ~HasAttr(models_list[k], var_names[1])
          /\ ~PlainAttribute(models_list[j], var_names[1])
          /\ ~ReadOnlyProperty(models_list[j], var_names[1])
          /\ SetterAccepts(models_list[j], var_names[1], dims[1])

\* C21: in any sequence of evaluations, one that follows an evaluation in
\* which a stage's run() raised included, a stage setter called by
\* run_models_with_new_values reads and writes the document while the working
\* directory is the project root (notebookDir).
C21_AsClaimed ==
    [][(last'.dims # <<>> /\ FirstSetterRewrites(last'.dims)) => cwd = notebookDir]_vars

\* the test of line 799 as the Bioreactor run of a returned call found it:
\* the enzymatic stage of the same call wrote enzymatic_output just before,
\* and the Bioreactor runs and writes its section only when rho_g is a number
BioreactorWrote ==
    /\ yaml["enzymatic_output"] # <<>>
    /\ ~IsNaN(yaml["enzymatic_output"][1])

\* C22: when the requested output is bioreactor_output, the value
\* run_models_with_new_values returns was written to the document by the
\* Bioreactor run of that same call, whatever the enzymatic stage produced
\* (a NaN rho_g included); it is never a value an earlier evaluation left.
C22_AsClaimed ==
    [][(PipelineReturned' /\ last'.dims # <<>> /\ output_name = "bioreactor_output")
           => BioreactorWrote']_vars
====
